---- MODULE Spec2Model ----
(***************************************************************************)
(* URL to Markdown API (src/app.py): the crawler lifecycle (lifespan) and  *)
(* the request handlers crawl_url, crawl_batch and health_check, run as    *)
(* asyncio coroutines that suspend at the awaited backend calls.           *)
(*                                                                         *)
(* Encoding. A Python str is a sequence of one-character strings, so that  *)
(* split() is computed. Optional[x] is a sequence of length <= 1: None is  *)
(* <<>> and a present value v is <<v>>. Error messages, titles and URLs    *)
(* are opaque and kept as TLA+ strings.                                    *)
(***************************************************************************)
EXTENDS Naturals, Sequences, FiniteSets

VARIABLES crawler, session, inflight, last

vars == <<crawler, session, inflight, last>>

(* ---------------------------- bounds ----------------------------------- *)

\* number of request handlers that can be suspended at the same time
MaxInflight == 2

\* batches up to this length are enumerated in full, with every return order
MaxSmallLen == 2

(* ------------------------ program constants ---------------------------- *)

MaxBatch == 10

DefaultError == "Crawl failed"

(* --------------------------- encodings --------------------------------- *)

None == <<>>

Some(v) == <<v>>

EmptyText == <<>>

TextA == <<"a">>

TextAB == <<"a", " ", "b">>

URLs == {"A", "B"}

Slots == 1..MaxInflight

(* len(content.split()) if content else 0 *)
WordCount(content) ==
    IF content = EmptyText THEN 0
    ELSE Cardinality({i \in 1..Len(content) :
                         /\ content[i] # " "
                         /\ (i = 1 \/ content[i - 1] = " ")})

(* ----------------------- the backend's results ------------------------- *)

\* result.markdown: an object with fit_markdown / raw_markdown attributes
MdObj(fit, raw) == [hasattrs |-> TRUE, fit_markdown |-> fit, raw_markdown |-> raw, str |-> raw]

\* result.markdown: a plain str, without the attributes
MdStr(s) == [hasattrs |-> FALSE, fit_markdown |-> None, raw_markdown |-> EmptyText, str |-> s]

Markdowns ==
    {MdObj(fit, TextAB) : fit \in {None, Some(EmptyText), Some(TextA)}} \cup {MdStr(TextAB)}

Metadatas == {None, Some([title |-> Some("T")])}

FailPages ==
    {[success |-> FALSE, error_message |-> e, markdown |-> MdStr(EmptyText), metadata |-> None] :
        e \in {None, Some(""), Some("timeout")}}

OkPages ==
    {[success |-> TRUE, error_message |-> None, markdown |-> m, metadata |-> md] :
        m \in Markdowns, md \in Metadatas}

Pages == FailPages \cup OkPages

\* the CrawlResult the backend returns for url
Result(url, page) ==
    [url |-> url, success |-> page.success, error_message |-> page.error_message,
     markdown |-> page.markdown, metadata |-> page.metadata]

(* ------------------- markdown extraction, /crawl ----------------------- *)

\* result.markdown.fit_markdown if hasattr(...) else result.markdown
FitMarkdown(result) ==
    IF result.markdown.hasattrs THEN result.markdown.fit_markdown
    ELSE Some(result.markdown.str)

\* result.markdown.raw_markdown if hasattr(...) else str(result.markdown)
RawMarkdown(result) ==
    IF result.markdown.hasattrs THEN result.markdown.raw_markdown
    ELSE result.markdown.str

\* isinstance(x, str), for x a str or None
IsStr(x) == x # None

\* the truth value of x, for x a str or None
Truthy(x) == x # None /\ x # Some(EmptyText)

\* a plausible slip: "content = fit_markdown or raw_markdown"
ContentSingleTruthy(result) ==
    IF Truthy(FitMarkdown(result))
    THEN FitMarkdown(result)[1]
    ELSE RawMarkdown(result)

\* if isinstance(fit_markdown, str): content = fit_markdown
\* else: content = str(fit_markdown) if fit_markdown else raw_markdown
ContentSingle(result) ==
    IF IsStr(FitMarkdown(result))
    THEN FitMarkdown(result)[1]
    ELSE (IF Truthy(FitMarkdown(result)) THEN FitMarkdown(result)[1] ELSE RawMarkdown(result))

\* result.metadata.get("title") if result.metadata else None
Title(result) ==
    IF result.metadata # None THEN result.metadata[1].title ELSE None

\* a plausible slip: "if error_message is None" instead of truthiness
OrDefaultNoneOnly(x, d) == IF x = None THEN d ELSE x[1]

(* x or default, for an Optional[str] x: None and "" are falsy *)
OrDefault(x, d) == IF x = None \/ x = Some("") THEN d ELSE x[1]

\* the CrawlResponse crawl_url builds from the backend's result
CrawlRecord(req, result) ==
    IF ~result.success
    THEN [url |-> req.url, title |-> None, markdown |-> EmptyText, raw_markdown |-> None,
          word_count |-> 0, success |-> FALSE,
          error |-> Some(OrDefault(result.error_message, DefaultError))]
    ELSE [url |-> req.url, title |-> Title(result), markdown |-> ContentSingle(result),
          raw_markdown |-> IF req.include_raw THEN Some(RawMarkdown(result)) ELSE None,
          word_count |-> WordCount(ContentSingle(result)), success |-> TRUE,
          error |-> None]

(* ---------------- markdown extraction, /crawl/batch -------------------- *)

\* content = fit_markdown if isinstance(fit_markdown, str)
\*           else str(fit_markdown) if fit_markdown else raw_markdown
ContentBatch(result) ==
    IF IsStr(FitMarkdown(result))
    THEN FitMarkdown(result)[1]
    ELSE (IF Truthy(FitMarkdown(result)) THEN FitMarkdown(result)[1] ELSE RawMarkdown(result))

\* a plausible slip: the failure record is built without its error
BatchRecordNoError(result) ==
    IF result.success
    THEN [url |-> result.url, title |-> Title(result), markdown |-> ContentBatch(result),
          raw_markdown |-> None, word_count |-> WordCount(ContentBatch(result)),
          success |-> TRUE, error |-> None]
    ELSE [url |-> result.url, title |-> None, markdown |-> EmptyText, raw_markdown |-> None,
          word_count |-> 0, success |-> FALSE, error |-> None]

\* the CrawlResponse crawl_batch appends for one result
BatchRecord(result) ==
    IF result.success
    THEN [url |-> result.url, title |-> Title(result), markdown |-> ContentBatch(result),
          raw_markdown |-> None, word_count |-> WordCount(ContentBatch(result)),
          success |-> TRUE, error |-> None]
    ELSE [url |-> result.url, title |-> None, markdown |-> EmptyText, raw_markdown |-> None,
          word_count |-> 0, success |-> FALSE,
          error |-> Some(OrDefault(result.error_message, DefaultError))]

\* index of the first failed result, or Len(results) + 1
FirstFailure(results) ==
    IF \E i \in 1..Len(results) : ~results[i].success
    THEN CHOOSE i \in 1..Len(results) :
            /\ ~results[i].success
            /\ \A j \in 1..(i - 1) : results[j].success
    ELSE Len(results) + 1

\* a plausible slip: the loop stops at the first failed result
BatchRecordsAbort(results) ==
    [i \in 1..(FirstFailure(results) - 1) |-> BatchRecord(results[i])]

\* for result in crawl_results: results.append(...)
BatchRecords(results) ==
    [i \in 1..Len(results) |-> BatchRecord(results[i])]

\* a plausible slip: ">=" for ">"
BatchTooLargeOffByOne(urls) == Len(urls) >= MaxBatch

\* if len(urls) > 10
BatchTooLarge(urls) == Len(urls) > MaxBatch

(* ------------------------------ state ---------------------------------- *)

\* crawler: the module global, None or the AsyncWebCrawler object
Handle == Some("AsyncWebCrawler")

\* session: how far the backend session behind the handle has got
SessionStates == {"Uninitialized", "Starting", "Ready", "ShuttingDown", "Stopped"}

\* inflight[s]: the handler suspended in slot s at its await, with its request
\* and the session state it was called in
Idle ==
    [kind |-> "idle", url |-> "", include_raw |-> FALSE, urls |-> <<>>, at |-> ""]

CrawlCall(req, at) ==
    [kind |-> "crawl", url |-> req.url, include_raw |-> req.include_raw, urls |-> <<>>, at |-> at]

BatchCall(urls, at) ==
    [kind |-> "batch", url |-> "", include_raw |-> FALSE, urls |-> urls, at |-> at]

\* last: the request that returned in the latest step, what the backend gave
\* it and the response it got
NoLast ==
    [kind |-> "none", url |-> "", include_raw |-> FALSE, urls |-> <<>>, at |-> "",
     fetched |-> FALSE, raised |-> FALSE, results |-> <<>>,
     status |-> 0, body |-> <<>>, detail |-> ""]

\* a response of a handler that returned without awaiting the backend
Direct(kind, url, urls, at, status, detail) ==
    [kind |-> kind, url |-> url, include_raw |-> FALSE, urls |-> urls, at |-> at,
     fetched |-> FALSE, raised |-> FALSE, results |-> <<>>,
     status |-> status, body |-> <<>>, detail |-> detail]

\* a response of a handler that awaited the backend
Fetched(call, raised, results, status, body, detail) ==
    [kind |-> call.kind, url |-> call.url, include_raw |-> call.include_raw,
     urls |-> call.urls, at |-> call.at,
     fetched |-> TRUE, raised |-> raised, results |-> results,
     status |-> status, body |-> body, detail |-> detail]

Init ==
    /\ crawler = None
    /\ session = "Uninitialized"
    /\ inflight = [s \in Slots |-> Idle]
    /\ last = NoLast

(* ----------------------------- lifespan -------------------------------- *)

\* crawler = AsyncWebCrawler(config=browser_config), up to the await of __aenter__
LifespanEnter ==
    /\ session = "Uninitialized"
    /\ crawler' = Handle
    /\ session' = "Starting"
    /\ last' = NoLast
    /\ UNCHANGED inflight

\* __aenter__() returns; the lifespan yields
LifespanStarted ==
    /\ session = "Starting"
    /\ session' = "Ready"
    /\ last' = NoLast
    /\ UNCHANGED <<crawler, inflight>>

\* the lifespan resumes after the yield and awaits __aexit__
LifespanExit ==
    /\ session = "Ready"
    /\ session' = "ShuttingDown"
    /\ last' = NoLast
    /\ UNCHANGED <<crawler, inflight>>

\* __aexit__() returns; the global keeps the handle
LifespanStopped ==
    /\ session = "ShuttingDown"
    /\ session' = "Stopped"
    /\ last' = NoLast
    /\ UNCHANGED <<crawler, inflight>>

(* ----------------------------- handlers -------------------------------- *)

\* a slip that would drop the handle in a handler
HandlerFrameResets == crawler' = None /\ UNCHANGED session

\* the handlers have no "global crawler": they read the global, never assign it
HandlerFrame == UNCHANGED <<crawler, session>>

\* GET /health
HealthCheck ==
    /\ last' = Direct("health", "", <<>>, session, 200, "healthy")
    /\ UNCHANGED inflight
    /\ HandlerFrame

\* POST /crawl, up to "await crawler.arun(...)"
CrawlUrlCall(s, req) ==
    /\ inflight[s].kind = "idle"
    /\ IF crawler = None
       THEN /\ last' = Direct("crawl", req.url, <<>>, session, 503, "Crawler not initialized")
            /\ UNCHANGED inflight
       ELSE /\ inflight' = [inflight EXCEPT ![s] = CrawlCall(req, session)]
            /\ last' = NoLast
    /\ HandlerFrame

\* arun returns a result: the response is built
CrawlUrlReturn(s, page) ==
    /\ inflight[s].kind = "crawl"
    /\ LET call == inflight[s]
           result == Result(call.url, page)
       IN last' = Fetched(call, FALSE, <<result>>, 200, <<CrawlRecord(call, result)>>, "")
    /\ inflight' = [inflight EXCEPT ![s] = Idle]
    /\ HandlerFrame

\* arun raises: except Exception -> 500
CrawlUrlRaise(s) ==
    /\ inflight[s].kind = "crawl"
    /\ last' = Fetched(inflight[s], TRUE, <<>>, 500, <<>>, "backend error")
    /\ inflight' = [inflight EXCEPT ![s] = Idle]
    /\ HandlerFrame

\* POST /crawl/batch, up to "await crawler.arun_many(...)"
CrawlBatchCall(s, urls) ==
    /\ inflight[s].kind = "idle"
    /\ IF crawler = None
       THEN /\ last' = Direct("batch", "", urls, session, 503, "Crawler not initialized")
            /\ UNCHANGED inflight
       ELSE IF BatchTooLarge(urls)
       THEN /\ last' = Direct("batch", "", urls, session, 400, "Maximum 10 URLs per batch request")
            /\ UNCHANGED inflight
       ELSE /\ inflight' = [inflight EXCEPT ![s] = BatchCall(urls, session)]
            /\ last' = NoLast
    /\ HandlerFrame

\* arun_many returns one result per URL, in the order order[1], order[2], ...
CrawlBatchReturn(s, pageOf, order) ==
    /\ inflight[s].kind = "batch"
    /\ LET call == inflight[s]
           results == [i \in 1..Len(call.urls) |->
                          Result(call.urls[order[i]], pageOf[call.urls[order[i]]])]
       IN last' = Fetched(call, FALSE, results, 200, BatchRecords(results), "")
    /\ inflight' = [inflight EXCEPT ![s] = Idle]
    /\ HandlerFrame

\* arun_many raises: except Exception -> 500
CrawlBatchRaise(s) ==
    /\ inflight[s].kind = "batch"
    /\ last' = Fetched(inflight[s], TRUE, <<>>, 500, <<>>, "backend error")
    /\ inflight' = [inflight EXCEPT ![s] = Idle]
    /\ HandlerFrame

(* ----------------------------- inputs ---------------------------------- *)

CrawlRequests == [url : URLs, include_raw : BOOLEAN]

\* a batch of n URLs, alternating over the two URLs
Alternating(n) == [i \in 1..n |-> IF i % 2 = 1 THEN "A" ELSE "B"]

SmallBatches == UNION {[1..n -> URLs] : n \in 0..MaxSmallLen}

BatchInputs == SmallBatches \cup {Alternating(MaxBatch), Alternating(MaxBatch + 1)}

\* the orders in which arun_many may return the results of n URLs
Orders(n) ==
    IF n <= MaxSmallLen
    THEN {p \in [1..n -> 1..n] : \A i, j \in 1..n : p[i] = p[j] => i = j}
    ELSE {[i \in 1..n |-> i], [i \in 1..n |-> n + 1 - i]}

\* the inputs of the concurrent specification
SomeCrawlRequests == {[url |-> "A", include_raw |-> TRUE]}

SomeBatches == {<<"A", "B">>}

Lifespan == LifespanEnter \/ LifespanStarted \/ LifespanExit \/ LifespanStopped

\* a failed fetch, a fetch with filtered text, a fetch without
SomePages ==
    { [success |-> FALSE, error_message |-> Some("timeout"), markdown |-> MdStr(EmptyText),
       metadata |-> None],
      [success |-> TRUE, error_message |-> None, markdown |-> MdObj(Some(TextA), TextAB),
       metadata |-> Some([title |-> Some("T")])],
      [success |-> TRUE, error_message |-> None, markdown |-> MdObj(None, TextAB),
       metadata |-> None] }

\* the backend answers the handler suspended in slot s, with pages of P
Returns(s, P) ==
    \/ \E page \in P : CrawlUrlReturn(s, page)
    \/ CrawlUrlRaise(s)
    \/ \E pageOf \in [URLs -> P] :
          \E order \in Orders(Len(inflight[s].urls)) : CrawlBatchReturn(s, pageOf, order)
    \/ CrawlBatchRaise(s)

\* any number of handlers, up to MaxInflight, interleaved with the lifespan
Next ==
    \/ Lifespan
    \/ HealthCheck
    \/ \E s \in Slots :
          \/ \E req \in SomeCrawlRequests : CrawlUrlCall(s, req)
          \/ \E urls \in SomeBatches : CrawlBatchCall(s, urls)
          \/ Returns(s, SomePages)

Spec == Init /\ [][Next]_vars

\* one handler at a time, every input
NextData ==
    \/ Lifespan
    \/ \E req \in CrawlRequests : CrawlUrlCall(1, req)
    \/ \E urls \in BatchInputs : CrawlBatchCall(1, urls)
    \/ Returns(1, Pages)

SpecData == Init /\ [][NextData]_vars

(* ------------------------------ claims --------------------------------- *)

IsRequest(r) == r.kind \in {"crawl", "batch"}

\* the backend's result carries text: its filtered text when it supplied one,
\* its raw text otherwise
HasContent(result) ==
    IF result.markdown.hasattrs
    THEN IF result.markdown.fit_markdown # None
         THEN result.markdown.fit_markdown[1] # EmptyText
         ELSE result.markdown.raw_markdown # EmptyText
    ELSE result.markdown.str # EmptyText

\* C1: a /crawl or /crawl/batch request handled while the session is not
\* Ready gets 503 and no backend fetch is made for it.
C1_PreReadyRejection ==
    (IsRequest(last) /\ last.at # "Ready") => (last.status = 503 /\ ~last.fetched)

\* C2: a batch of 1..10 URLs answered with 200 has one record per input URL,
\* and the record at position i is the one of input URL i.
C2_BatchLengthAndOrder ==
    (last.kind = "batch" /\ last.status = 200 /\ Len(last.urls) \in 1..MaxBatch)
        => /\ Len(last.body) = Len(last.urls)
           /\ \A i \in 1..Len(last.urls) : last.body[i].url = last.urls[i]

\* C3: with the session Ready, a batch of exactly 10 URLs is fetched (and
\* answered with 10 records unless the backend raises), a batch of more than
\* 10 is answered 400 without a fetch, and no fetch is ever in flight for more
\* than 10 URLs.
C3_BatchSizeBoundary ==
    /\ (last.kind = "batch" /\ last.at = "Ready" /\ Len(last.urls) = MaxBatch)
          => /\ last.fetched
             /\ ~last.raised => (last.status = 200 /\ Len(last.body) = MaxBatch)
    /\ (last.kind = "batch" /\ last.at = "Ready" /\ Len(last.urls) > MaxBatch)
          => (last.status = 400 /\ ~last.fetched)
    /\ \A s \in Slots : inflight[s].kind = "batch" => Len(inflight[s].urls) <= MaxBatch

C3_Witness ==
    /\ last.kind = "batch" /\ last.at = "Ready" /\ Len(last.urls) = MaxBatch
    /\ last.fetched /\ last.status = 200 /\ Len(last.body) = MaxBatch

\* C4: with the session Ready, a batch with no URL is answered 400 and the
\* backend's bulk fetch is not called for it.
C4_EmptyBatchRejected ==
    /\ (last.kind = "batch" /\ last.at = "Ready" /\ last.urls = <<>>)
          => (last.status = 400 /\ ~last.fetched)
    /\ \A s \in Slots :
          (inflight[s].kind = "batch" /\ inflight[s].at = "Ready") => inflight[s].urls # <<>>

\* C5: every record of a response has, when success is false, empty text, a
\* word count of 0 and an error; when success is true, no error.
C5_RecordInvariant ==
    \A i \in 1..Len(last.body) :
        /\ ~last.body[i].success =>
              /\ last.body[i].markdown = EmptyText
              /\ last.body[i].word_count = 0
              /\ last.body[i].error # None
              /\ last.body[i].error # Some("")
        /\ last.body[i].success => last.body[i].error = None

C5_Witness ==
    /\ last.kind = "batch" /\ last.status = 200
    /\ \E i, j \in 1..Len(last.body) :
          /\ ~last.body[i].success /\ last.results[i].error_message = None
          /\ last.body[j].success /\ last.body[j].word_count > 0

\* C6: when the bulk fetch returns, the batch is answered 200 with one record
\* per result; if the backend failed URL A and fetched URL B with content,
\* the response has a failed record for A and a successful record with
\* non-empty text for B, whichever comes first.
C6_FailureIsolation ==
    (last.kind = "batch" /\ last.fetched /\ ~last.raised) =>
        /\ last.status = 200
        /\ Len(last.body) = Len(last.results)
        /\ \A i, j \in 1..Len(last.results) :
              (~last.results[i].success /\ last.results[j].success /\ HasContent(last.results[j]))
                  => /\ \E k \in 1..Len(last.body) :
                           /\ last.body[k].url = last.results[i].url
                           /\ ~last.body[k].success
                     /\ \E k \in 1..Len(last.body) :
                           /\ last.body[k].url = last.results[j].url
                           /\ last.body[k].success
                           /\ last.body[k].markdown # EmptyText

C6_Witness ==
    /\ last.kind = "batch" /\ last.status = 200 /\ last.urls = <<"B", "A">>
    /\ Len(last.results) = 2
    /\ last.results[1].url = "A" /\ ~last.results[1].success
    /\ last.results[2].url = "B" /\ last.results[2].success /\ HasContent(last.results[2])
    /\ ~last.body[1].success
    /\ last.body[2].success /\ last.body[2].markdown # EmptyText

\* C7: a backend fetch is suspended on the session only while the session is
\* Ready: none is issued before start() completed, none after stop() began,
\* and stop() does not begin while one is in flight.
C7_FetchOnlyWhenReady ==
    \A s \in Slots : inflight[s].kind # "idle" => session = "Ready"

\* C8: a /crawl request whose backend result has success = false is answered
\* 200 with a record with success = false whose error is the backend's
\* error message, or the generic message when that is absent or empty.
C8_FetchFailureRecovered ==
    (last.kind = "crawl" /\ last.fetched /\ ~last.raised /\ ~last.results[1].success) =>
        /\ last.status = 200
        /\ Len(last.body) = 1
        /\ ~last.body[1].success
        /\ last.body[1].error =
              IF last.results[1].error_message \in {None, Some("")}
              THEN Some(DefaultError)
              ELSE last.results[1].error_message

C8_Witness ==
    /\ last.kind = "crawl" /\ last.fetched /\ last.status = 200
    /\ last.results[1].error_message = Some("")
    /\ ~last.body[1].success
    /\ last.body[1].error = Some(DefaultError)

\* C9: for every successful result, of /crawl and of /crawl/batch alike, the
\* record's text is the filtered text when the backend supplied one and the
\* raw text when it did not.
C9_FallbackToRaw ==
    (IsRequest(last) /\ last.fetched /\ ~last.raised) =>
        /\ Len(last.body) = Len(last.results)
        /\ \A i \in 1..Len(last.results) :
              last.results[i].success =>
                 /\ last.body[i].success
                 /\ last.body[i].markdown =
                       IF last.results[i].markdown.hasattrs
                       THEN IF last.results[i].markdown.fit_markdown # None
                            THEN last.results[i].markdown.fit_markdown[1]
                            ELSE last.results[i].markdown.raw_markdown
                       ELSE last.results[i].markdown.str

C9_Witness ==
    /\ last.kind = "crawl" /\ last.status = 200
    /\ last.results[1].success
    /\ last.results[1].markdown.hasattrs
    /\ last.results[1].markdown.fit_markdown = Some(EmptyText)
    /\ last.results[1].markdown.raw_markdown # EmptyText
    /\ last.body[1].markdown = EmptyText

====
